---- MODULE Spec2Model ----
(***************************************************************************)
(* Model of packages/browser/src/client/orchestrator.ts: the browser-side  *)
(* orchestrator that creates tester iframes, listens to their channel      *)
(* events and tells the host when the run has finished.                    *)
(*                                                                         *)
(* One step of the model is one synchronous stretch of JavaScript: the     *)
(* code between two awaits.  An await of a host RPC, of the UI adapter or  *)
(* of the container is a suspension that another task may interleave with; *)
(* an await that only yields a microtask keeps every other task out        *)
(* (NoMicrotask).                                                          *)
(***************************************************************************)
EXTENDS Integers, Sequences, FiniteSets, Bags, TLC

ID_ALL == "__vitest_all__"

\* bounds of the model
MaxPasses == 2
MaxEvents == 2

Files == {"a", "b"}
Ids == Files \cup {ID_ALL}
Passes == 1..MaxPasses

\* file lists a run can be requested with, and filename lists of a done event
RunLists == {<<>>, <<"a">>, <<"a", "b">>}
NameLists == {<<"a">>, <<"a", "b">>}

Range(s) == {s[k] : k \in 1..Len(s)}

\* IframeChannelEvent: done / error / viewport, and any other type
\* a tester of one file reports that file, the tester of all files any of them
DoneEvents == {[type |-> "done", filenames |-> <<f>>, id |-> f] : f \in Files}
                  \cup [type : {"done"}, filenames : NameLists, id : {ID_ALL}]
ErrorEvents == [type : {"error"}, filenames : {<<>>}, id : {"a", ID_ALL}]
ViewportEvents == [type : {"viewport"}, filenames : {<<>>}, id : {"a", ID_ALL}]
OtherEvents == [type : {"other"}, filenames : {<<>>}, id : {""}]
IframeChannelEvent == DoneEvents \cup ErrorEvents \cup ViewportEvents \cup OtherEvents

NoEvent == [type |-> "none", filenames |-> <<>>, id |-> ""]

VARIABLES
    isolate,         \* config.isolate !== false
    hasUI,           \* config.browser.ui is set and getUiAPI() returns the adapter
    opened,          \* the ws 'open' handler ran: the channel listener is installed
    iframes,         \* the Map iframes: id -> 0 (no entry) or the pass that created the entry
    runningFiles,    \* the Set runningFiles
    promiseTesters,  \* 0 (undefined) or the pass whose promise it holds
    pass,            \* the calls of createTesters and of getBrowserState().createTesters
    pending,         \* bag of suspended listener invocations (the await each one is at)
    nEvents,         \* number of channel events delivered so far
    finalizeCalls,   \* calls of done() since the last reset of runningFiles by createTesters
    last             \* the step taken last: the event it handled and the calls it made

vars == <<isolate, hasUI, opened, iframes, runningFiles, promiseTesters, pass,
          pending, nEvents, finalizeCalls, last>>

IdlePass == [pc |-> "idle", files |-> <<>>, i |-> 0, waitsOn |-> 0, boot |-> FALSE,
             created |-> <<>>, seen |-> FALSE, early |-> FALSE]

Init ==
    /\ isolate \in BOOLEAN
    /\ hasUI \in BOOLEAN
    /\ opened = FALSE
    /\ iframes = [id \in Ids |-> 0]
    /\ runningFiles = {}
    /\ promiseTesters = 0
    /\ pass = [p \in Passes |-> IdlePass]
    /\ pending = EmptyBag
    /\ nEvents = 0
    /\ finalizeCalls = 0
    /\ last = [n |-> 0, act |-> "init", ev |-> NoEvent, arg |-> "", out |-> <<>>]

\* a continuation that is a microtask is queued: it runs before any other task
MicrotaskPending(ps) ==
    \E p \in Passes : \/ ps[p].pc \in {"ready", "resolved"}
                      \/ ps[p].pc \in {"container", "viewport"} /\ ~hasUI
NoMicrotask == ~MicrotaskPending(pass)

\* the next call slot that was not used yet (0 when all are used)
FreePass == IF \E p \in Passes : pass[p].pc = "idle"
            THEN CHOOSE p \in Passes : pass[p].pc = "idle" /\ \A q \in 1..(p - 1) : pass[q].pc # "idle"
            ELSE 0

\* lines 31-34 of createIframe: the iframe registered under the same id is removed from
\* the document before the new one is created
removeOld(m, file) == IF m[file] # 0 THEN <<"remove">> ELSE <<>>

\* mutant: an iframe registered under the id is kept and no new one is registered
createIframe_KeepOld(m, file, p) == IF m[file] # 0 THEN m ELSE [m EXCEPT ![file] = p]

\* createIframe(container, file): an entry of the same id is removed first
createIframe(m, file, p) == [m EXCEPT ![file] = p]

\* createTesters, lines 186-190: reset of runningFiles, up to `await getContainer(config)`
createTesters(ps, p, fl, boot) ==
    [ps EXCEPT ![p] = [pc |-> "container", files |-> fl, i |-> 0, waitsOn |-> 0,
                       boot |-> boot, created |-> <<>>, seen |-> FALSE, early |-> FALSE]]

\* the record of a step: the event it dispatched, the id or argument it is about, its calls
Step(act, ev, arg, out) == [n |-> nEvents, act |-> act, ev |-> ev, arg |-> arg, out |-> out]

\* client.ws 'open' handler, lines 107-183
OnOpen(fl) ==
    /\ ~opened
    /\ opened' = TRUE
    /\ runningFiles' = Range(fl)
    /\ IF Len(fl) > 0
       THEN pass' = createTesters(pass, 1, fl, TRUE)
       ELSE pass' = pass
    /\ finalizeCalls' = 0
    /\ last' = Step("open", NoEvent, "", <<>>)
    /\ UNCHANGED <<isolate, hasUI, iframes, promiseTesters, pending, nEvents>>

\* createTesters settles (returns or rejects): the finally callback of line 19 runs when the
\* call came through getBrowserState().createTesters, and every caller suspended at the
\* `await promiseTesters` of line 17 on this promise resumes (or throws, on a rejection)
Settle(ps, p, outcome) ==
    [q \in Passes |->
        IF q = p THEN [IdlePass EXCEPT !.pc = outcome, !.created = ps[q].created,
                                       !.early = ps[q].early]
        ELSE IF ps[q].pc = "await1" /\ ps[q].waitsOn = p
             THEN IF outcome = "returned" THEN [ps[q] EXCEPT !.pc = "ready", !.waitsOn = 0]
                  ELSE [IdlePass EXCEPT !.pc = "aborted"]
             ELSE ps[q]]

PromiseAfterSettle(p) == IF pass[p].boot THEN promiseTesters ELSE 0

\* getBrowserState().createTesters(files), lines 16-18: `await promiseTesters`
RequestTesters(fl) ==
    /\ opened
    /\ NoMicrotask
    /\ FreePass # 0
    /\ LET p == FreePass IN
       IF promiseTesters = 0
       THEN \* nothing to wait for: createTesters starts in the same task
            /\ pass' = createTesters(pass, p, fl, FALSE)
            /\ promiseTesters' = p
            /\ runningFiles' = Range(fl)
            /\ finalizeCalls' = 0
       ELSE /\ pass' = [pass EXCEPT ![p] = [IdlePass EXCEPT !.pc = "await1", !.files = fl,
                                                            !.waitsOn = promiseTesters]]
            /\ UNCHANGED <<promiseTesters, runningFiles, finalizeCalls>>
    /\ last' = Step("request", NoEvent, "", <<>>)
    /\ UNCHANGED <<isolate, hasUI, opened, iframes, pending, nEvents>>

\* lines 17-18 after the awaited promise fulfilled: createTesters(files) is called and
\* promiseTesters is overwritten
CallerResume(p) ==
    /\ pass[p].pc = "ready"
    /\ pass' = createTesters(pass, p, pass[p].files, FALSE)
    /\ promiseTesters' = p
    /\ runningFiles' = Range(pass[p].files)
    /\ finalizeCalls' = 0
    /\ last' = Step("callerResume", NoEvent, "", <<>>)
    /\ UNCHANGED <<isolate, hasUI, opened, iframes, pending, nEvents>>

\* mutant: the shared branch is lost, one iframe per file in either mode
TesterIds_PerFile(iso, fl) == fl

\* the ids createTesters creates an iframe for, in order (lines 201-216)
TesterIds(iso, fl) == IF iso THEN fl ELSE <<ID_ALL>>

\* createTesters creates its next iframe and calls setIframeViewport (lines 202-207, 213-218),
\* or returns when the loop of line 212 is over
NextIframe(p, m, act) ==
    LET ids == TesterIds(isolate, pass[p].files)
        k == pass[p].i + 1
    IN IF k <= Len(ids)
       THEN /\ iframes' = createIframe(m, ids[k], p)
            /\ pass' = [pass EXCEPT ![p].pc = "viewport", ![p].i = k,
                                    ![p].created = Append(@, ids[k]),
                                    ![p].seen = FALSE,
                                    ![p].early = @ \/ (k > 1 /\ ~pass[p].seen)]
            /\ promiseTesters' = promiseTesters
            /\ last' = Step(act, NoEvent, ids[k],
                            removeOld(m, ids[k]) \o <<"createIframe", "setIframeViewport">>)
       ELSE /\ iframes' = m
            /\ pass' = Settle(pass, p, "returned")
            /\ promiseTesters' = PromiseAfterSettle(p)
            /\ last' = Step(act, NoEvent, "", <<"return">>)

\* lines 190-199 after getContainer resolved: every iframe of the registry is removed
ContainerReady(p) ==
    /\ pass[p].pc = "container"
    /\ hasUI => NoMicrotask
    /\ NextIframe(p, [id \in Ids |-> 0], "container")
    /\ UNCHANGED <<isolate, hasUI, opened, runningFiles, pending, nEvents, finalizeCalls>>

\* `await setIframeViewport` of lines 207 / 218 resolved: the shared pass returns, the
\* isolated pass registers its handler on the channel (lines 220-228)
ViewportApplied(p) ==
    /\ pass[p].pc = "viewport"
    /\ hasUI => NoMicrotask
    /\ IF isolate
       THEN /\ pass' = [pass EXCEPT ![p].pc = "wait"]
            /\ UNCHANGED promiseTesters
            /\ last' = Step("viewportApplied", NoEvent, "", <<"addEventListener">>)
       ELSE /\ pass' = Settle(pass, p, "returned")
            /\ promiseTesters' = PromiseAfterSettle(p)
            /\ last' = Step("viewportApplied", NoEvent, "", <<"return">>)
    /\ UNCHANGED <<isolate, hasUI, opened, iframes, runningFiles, pending, nEvents, finalizeCalls>>

\* ui.setIframeViewport (line 243) rejected: createTesters rejects
ViewportFailed(p) ==
    /\ pass[p].pc = "viewport"
    /\ hasUI
    /\ NoMicrotask
    /\ pass' = Settle(pass, p, "rejected")
    /\ promiseTesters' = PromiseAfterSettle(p)
    /\ last' = Step("viewportFailed", NoEvent, "", <<"throw">>)
    /\ UNCHANGED <<isolate, hasUI, opened, iframes, runningFiles, pending, nEvents, finalizeCalls>>

\* the promise of line 220 was resolved by the handler: the loop goes on
LoopResume(p) ==
    /\ pass[p].pc = "resolved"
    /\ NextIframe(p, iframes, "loop")
    /\ UNCHANGED <<isolate, hasUI, opened, runningFiles, pending, nEvents, finalizeCalls>>

\* a suspended listener invocation: the await it is at, the event id and done's argument
Cont(k, id, notify) == [k |-> k, id |-> id, notify |-> notify]

ArgOf(testFinished) == IF testFinished THEN "true" ELSE "false"

\* done(testFinished), lines 53-55: rpcDone() is called and awaited
done(testFinished) == Cont("rpcDone", "", testFinished)

\* mutant: the finally block is lost
doneFinally_None(testFinished) == <<>>

\* the finally block of done, line 59
doneFinally(testFinished) == IF testFinished /\ hasUI THEN <<"runTestsFinish">> ELSE <<>>

\* what one invocation of the listener does before its first suspension:
\* the new registry and running set, the invocations of done(), the await it stops at
\* (conts) and the calls it made (out)
Effect(m, rf, finals, conts, out) ==
    [iframes |-> m, runningFiles |-> rf, finals |-> finals, conts |-> conts, out |-> out]

\* mutant: the check of line 121 is lost, a missing iframe is resized like a present one
onViewport_NoCheck(e, m, rf) ==
    IF hasUI
    THEN Effect(m, rf, 0, <<Cont("viewport", e.id, FALSE)>>, <<"ui.setIframeViewport">>)
    ELSE Effect(m, rf, 0, <<>>, <<"style", "post viewport:done">>)

\* case 'viewport', lines 118-133
onViewport(e, m, rf) ==
    IF m[e.id] = 0
    THEN Effect(m, rf, 0, <<>>, <<"post viewport:fail", "onUnhandledError Teardown Error">>)
    ELSE IF hasUI
         THEN Effect(m, rf, 0, <<Cont("viewport", e.id, FALSE)>>, <<"ui.setIframeViewport">>)
         ELSE Effect(m, rf, 0, <<>>, <<"style", "post viewport:done">>)

\* mutant: only the first filename of the event is removed
markDone_FirstOnly(rf, filenames) == rf \ {filenames[1]}

\* filenames.forEach(filename => runningFiles.delete(filename)), line 136
markDone(rf, filenames) == rf \ Range(filenames)

\* mutant: the size check of line 138 is lost, every done event finalizes
onDone_NoSizeCheck(e, m, rf) ==
    Effect(m, markDone(rf, e.filenames), 1, <<done(TRUE)>>, <<"done(true)", "rpcDone">>)

\* mutant: the iframe of the event is removed also when the running set became empty
onDone_RemoveLast(e, m, rf) ==
    LET left == markDone(rf, e.filenames) IN
    IF left = {}
    THEN Effect([m EXCEPT ![e.id] = 0], left, 1, <<done(TRUE)>>,
                (IF hasUI /\ Len(e.filenames) > 1 THEN <<"setCurrentFileId">> ELSE <<>>)
                    \o <<"done(true)", "rpcDone">>)
    ELSE Effect([m EXCEPT ![e.id] = 0], left, 0, <<>>, <<>>)

\* case 'done', lines 134-155
onDone(e, m, rf) ==
    LET left == markDone(rf, e.filenames) IN
    IF left = {}
    THEN Effect(m, left, 1, <<done(TRUE)>>,
                (IF hasUI /\ Len(e.filenames) > 1 THEN <<"setCurrentFileId">> ELSE <<>>)
                    \o <<"done(true)", "rpcDone">>)
    ELSE Effect([m EXCEPT ![e.id] = 0], left, 0, <<>>, <<>>)

\* case 'error', lines 157-160: up to `await client.rpc.onUnhandledError`
onError(e, m, rf) ==
    Effect([m EXCEPT ![e.id] = 0], rf, 0, <<Cont("error", e.id, FALSE)>>, <<"onUnhandledError">>)

\* default case, lines 169-173: up to `await client.rpc.onUnhandledError`
onOther(e, m, rf) ==
    Effect(m, rf, 0, <<Cont("other", "", FALSE)>>, <<"onUnhandledError Unexpected Event">>)

\* the switch of line 117
Listener(e, m, rf) ==
    CASE e.type = "viewport" -> onViewport(e, m, rf)
      [] e.type = "done" -> onDone(e, m, rf)
      [] e.type = "error" -> onError(e, m, rf)
      [] OTHER -> onOther(e, m, rf)

SeqToBag(s) == [c \in Range(s) |-> Cardinality({k \in 1..Len(s) : s[k] = c})]

\* the event is the done or error event of the iframe the pass created last
Corresponds(e, r) ==
    /\ r.pc \in {"viewport", "wait"}
    /\ r.i >= 1
    /\ LET id == TesterIds(isolate, r.files)[r.i] IN
       \/ e.id = id
       \/ e.type = "done" /\ id \in Range(e.filenames)

\* mutant: the type check of line 223 is lost, any event resolves the waiting pass
Handler_AnyEvent(e, r) ==
    [r EXCEPT !.pc = IF @ = "wait" THEN "resolved" ELSE @,
              !.seen = @ \/ Corresponds(e, r)]

\* handler of lines 221-227, registered by a pass that waits at line 220
Handler(e, r) ==
    IF e.type = "done" \/ e.type = "error"
    THEN [r EXCEPT !.pc = IF @ = "wait" THEN "resolved" ELSE @,
                   !.seen = @ \/ Corresponds(e, r)]
    ELSE r

\* one message event on the channel: the listener of line 115 runs up to its first
\* suspension, then the handlers of the waiting passes
Dispatch(e) ==
    /\ opened
    /\ NoMicrotask
    /\ nEvents < MaxEvents
    /\ nEvents' = nEvents + 1
    /\ LET eff == Listener(e, iframes, runningFiles) IN
       /\ iframes' = eff.iframes
       /\ runningFiles' = eff.runningFiles
       /\ finalizeCalls' = finalizeCalls + eff.finals
       /\ pending' = pending (+) SeqToBag(eff.conts)
       /\ last' = [n |-> nEvents + 1, act |-> "dispatch", ev |-> e, arg |-> e.id, out |-> eff.out]
    /\ pass' = [p \in Passes |-> Handler(e, pass[p])]
    /\ UNCHANGED <<isolate, hasUI, opened, promiseTesters>>

Take(c) == pending (-) SetToBag({c})

\* mutant: the ID_ALL case is lost, the id is removed like any other
clearFailed_OnlyId(rf, id) == rf \ {id}

\* mutant: every error ends the whole run
clearFailed_All(rf, id) == {}

\* runningFiles after the awaited onUnhandledError of an error event, lines 161-164
clearFailed(rf, id) == IF id = ID_ALL THEN {} ELSE rf \ {id}

\* case 'error', lines 161-166, after onUnhandledError resolved
ErrorResume(c) ==
    /\ BagIn(c, pending) /\ c.k = "error"
    /\ NoMicrotask
    /\ LET left == clearFailed(runningFiles, c.id) IN
       /\ runningFiles' = left
       /\ IF left = {}
          THEN /\ pending' = Take(c) (+) SetToBag({done(TRUE)})
               /\ finalizeCalls' = finalizeCalls + 1
               /\ last' = Step("errorResume", NoEvent, c.id, <<"done(true)", "rpcDone">>)
          ELSE /\ pending' = Take(c)
               /\ finalizeCalls' = finalizeCalls
               /\ last' = Step("errorResume", NoEvent, c.id, <<>>)
    /\ UNCHANGED <<isolate, hasUI, opened, iframes, promiseTesters, pass, nEvents>>

\* mutant: the default case calls done() with its default argument
otherNotify_Default == TRUE

\* the argument the default case passes to done, line 174
otherNotify == FALSE

\* default case, line 174, after onUnhandledError resolved
OtherResume(c) ==
    /\ BagIn(c, pending) /\ c.k = "other"
    /\ NoMicrotask
    /\ pending' = Take(c) (+) SetToBag({done(otherNotify)})
    /\ finalizeCalls' = finalizeCalls + 1
    /\ last' = Step("otherResume", NoEvent, "",
                    <<IF otherNotify THEN "done(true)" ELSE "done(false)", "rpcDone">>)
    /\ UNCHANGED <<isolate, hasUI, opened, iframes, runningFiles, promiseTesters, pass, nEvents>>

\* done, line 56, after rpcDone resolved: finishBrowserTests is called
RpcDoneResolved(c) ==
    /\ BagIn(c, pending) /\ c.k = "rpcDone"
    /\ NoMicrotask
    /\ pending' = Take(c) (+) SetToBag({Cont("finish", "", c.notify)})
    /\ last' = Step("rpcDone", NoEvent, ArgOf(c.notify), <<"finishBrowserTests">>)
    /\ UNCHANGED <<isolate, hasUI, opened, iframes, runningFiles, promiseTesters, pass,
                   nEvents, finalizeCalls>>

\* done, lines 58-60: rpcDone or finishBrowserTests settled (resolved or rejected) and the
\* finally block runs
DoneFinally(c, ok) ==
    /\ BagIn(c, pending)
    /\ c.k = "finish" \/ (c.k = "rpcDone" /\ ~ok)
    /\ NoMicrotask
    /\ pending' = Take(c)
    /\ last' = Step(IF ok THEN "doneReturn" ELSE "doneThrow", NoEvent, ArgOf(c.notify),
                    doneFinally(c.notify))
    /\ UNCHANGED <<isolate, hasUI, opened, iframes, runningFiles, promiseTesters, pass,
                   nEvents, finalizeCalls>>

\* case 'viewport', lines 130-131, after ui.setIframeViewport settled
ViewportResume(c, ok) ==
    /\ BagIn(c, pending) /\ c.k = "viewport"
    /\ NoMicrotask
    /\ pending' = Take(c)
    /\ last' = Step("viewportResume", NoEvent, c.id,
                    IF ok THEN <<"post viewport:done">> ELSE <<"throw">>)
    /\ UNCHANGED <<isolate, hasUI, opened, iframes, runningFiles, promiseTesters, pass,
                   nEvents, finalizeCalls>>

Conts == [k : {"viewport", "error", "other", "rpcDone", "finish"}, id : Ids \cup {""},
          notify : BOOLEAN]

Next ==
    \/ \E fl \in RunLists : OnOpen(fl)
    \/ \E fl \in RunLists : RequestTesters(fl)
    \/ \E p \in Passes : CallerResume(p)
    \/ \E p \in Passes : ContainerReady(p)
    \/ \E p \in Passes : ViewportApplied(p)
    \/ \E p \in Passes : ViewportFailed(p)
    \/ \E p \in Passes : LoopResume(p)
    \/ \E e \in IframeChannelEvent : Dispatch(e)
    \/ \E c \in Conts : ErrorResume(c)
    \/ \E c \in Conts : OtherResume(c)
    \/ \E c \in Conts : RpcDoneResolved(c)
    \/ \E c \in Conts, ok \in BOOLEAN : DoneFinally(c, ok)
    \/ \E c \in Conts, ok \in BOOLEAN : ViewportResume(c, ok)

Spec == Init /\ [][Next]_vars

----------------------------------------------------------------------------
(* Properties *)

Live == {id \in Ids : iframes[id] # 0}
Active(p) == pass[p].pc \in {"container", "viewport", "wait", "resolved"}
IsPrefix(s, t) == Len(s) <= Len(t) /\ \A k \in 1..Len(s) : s[k] = t[k]
Has(out, x) == \E k \in 1..Len(out) : out[k] = x
Copies(c, b) == CopiesIn(c, b)

\* C1: within one run (since createTesters last reset the running set, once the run has
\* created an iframe) done(), and with it finishBrowserTests, is invoked at most once,
\* whatever events are delivered.
C1_FinalizeAtMostOnce == (\E p \in Passes : pass[p].created # <<>>) => finalizeCalls <= 1

\* C2: at most one execution of createTesters is active at any instant: a later request
\* does not reset the running set or tear iframes down before every earlier pass settled.
C2_OnePassActive == Cardinality({p \in Passes : Active(p)}) <= 1

\* C3: in isolated mode the iframes are created in the order of the file list, and the
\* iframe of the next file is never created before a done or error event of the iframe
\* created last was observed on the channel.
C3_IsolatedOrder ==
    isolate => \A p \in Passes : /\ Active(p) => IsPrefix(pass[p].created, pass[p].files)
                                 /\ ~pass[p].early

\* C4: in isolated mode the registry never holds two iframes at once.
C4_OneLiveSandbox == isolate => Cardinality(Live) <= 1

\* C5: in shared mode a pass creates exactly one iframe, under ID_ALL, whatever the file
\* list is, and returns without ever waiting for a done or error event.
C5_SharedOneSandbox ==
    ~isolate => \A p \in Passes :
        /\ pass[p].pc \notin {"wait", "resolved"}
        /\ pass[p].created \in {<<>>, <<ID_ALL>>}
        /\ pass[p].pc = "viewport" => pass[p].created = <<ID_ALL>>
        /\ pass[p].pc \in {"returned", "rejected"} => pass[p].created = <<ID_ALL>>

\* a shared pass over two files has returned although no event was delivered at all
C5_Witness ==
    /\ ~isolate
    /\ nEvents = 0
    /\ runningFiles = {"a", "b"}
    /\ \E p \in Passes : pass[p].pc = "returned" /\ pass[p].created = <<ID_ALL>>

\* C6: in shared mode no done event that leaves the running set non-empty removes the
\* ID_ALL iframe from the registry.
C6_AllHandleKept ==
    [][(/\ ~isolate
        /\ last'.act = "dispatch" /\ last'.ev.type = "done"
        /\ iframes[ID_ALL] # 0
        /\ runningFiles' # {}) => iframes'[ID_ALL] # 0]_vars

\* C7: a done event removes exactly the filenames it names from the running set, and
\* done() is invoked by that event, once, if and only if the running set is then empty.
C7_DoneRemovesNamed ==
    [][(last'.act = "dispatch" /\ last'.ev.type = "done") =>
        /\ runningFiles' = runningFiles \ Range(last'.ev.filenames)
        /\ finalizeCalls' = finalizeCalls + (IF runningFiles' = {} THEN 1 ELSE 0)
        /\ Has(last'.out, "done(true)") <=> runningFiles' = {}
        /\ Copies(done(TRUE), pending') =
               Copies(done(TRUE), pending) + (IF runningFiles' = {} THEN 1 ELSE 0)]_vars

\* a run of a and b, done [a] without finalize, then done [b]: one call of done()
C7_Witness ==
    /\ last.act = "dispatch" /\ last.ev = [type |-> "done", filenames |-> <<"b">>, id |-> "b"]
    /\ nEvents = 2
    /\ runningFiles = {}
    /\ finalizeCalls = 1
    /\ \E p \in Passes : pass[p].created = <<"a", "b">>

C9_ViewportMiss ==
    [][(last'.act = "dispatch" /\ last'.ev.type = "viewport" /\ iframes[last'.ev.id] = 0) =>
        /\ last'.out = <<"post viewport:fail", "onUnhandledError Teardown Error">>
        /\ UNCHANGED <<runningFiles, iframes, finalizeCalls, pending>>]_vars

\* a viewport event for an id without iframe was handled while a run was under way
C9_Witness ==
    /\ last.act = "dispatch" /\ last.ev.type = "viewport"
    /\ iframes[last.ev.id] = 0
    /\ runningFiles # {}
    /\ Live # {}

C11_UIReleased ==
    [][/\ (last'.act = "rpcDone" /\ last'.arg = "true") =>
            /\ last'.out = <<"finishBrowserTests">>
            /\ Copies(done(TRUE), pending') = Copies(done(TRUE), pending) - 1
            /\ Copies(Cont("finish", "", TRUE), pending') =
                   Copies(Cont("finish", "", TRUE), pending) + 1
       /\ (last'.act \in {"doneReturn", "doneThrow"} /\ last'.arg = "true") =>
            /\ last'.out = IF hasUI THEN <<"runTestsFinish">> ELSE <<>>
            /\ Copies(done(TRUE), pending') + Copies(Cont("finish", "", TRUE), pending') =
                   Copies(done(TRUE), pending) + Copies(Cont("finish", "", TRUE), pending) - 1]_vars

\* with a UI adapter, a done(true) call whose awaited call rejected released the UI
C11_Witness ==
    /\ hasUI
    /\ last.act = "doneThrow" /\ last.arg = "true"
    /\ last.out = <<"runTestsFinish">>

\* C12: once a run has created an iframe, the registry holds no iframe created by an
\* earlier run.
C12_NoStaleSandbox ==
    \A p \in Passes : \A id \in Ids :
        (pass[p].created # <<>> /\ iframes[id] # 0) => iframes[id] >= p

C14_NoLostEvent ==
    isolate => \A p \in Passes :
        ~(pass[p].pc = "wait" /\ pass[p].seen /\ pass[p].i < Len(pass[p].files))

\* C15: events are handled strictly one after the other: when an event is dispatched, no
\* invocation of the listener for an earlier error event is still suspended before its
\* update of the running set.
C15_ArrivalOrder ==
    [][last'.act = "dispatch" => \A c \in Conts : c.k = "error" => ~BagIn(c, pending)]_vars

\* C16 as stated: whenever done() is invoked, the running set is empty.
C16_FinalizeOnlyWhenEmpty ==
    (Has(last.out, "done(true)") \/ Has(last.out, "done(false)")) => runningFiles = {}

\* C16, amended: whenever done(true) is invoked (by a done or an error event) the running
\* set is empty; only the default case invokes done(false), whatever the running set.
C16_NotifyOnlyWhenEmpty ==
    /\ Has(last.out, "done(true)") => runningFiles = {} /\ last.act \in {"dispatch", "errorResume"}
    /\ Has(last.out, "done(false)") => last.act = "otherResume"

\* done(true) was invoked by the done event that emptied the running set of a run
C16_Witness ==
    /\ Has(last.out, "done(true)")
    /\ last.act = "dispatch" /\ last.ev.type = "done"
    /\ runningFiles = {}
    /\ \E p \in Passes : pass[p].created # <<>>

\* C17: the listener invocation of a viewport event whose iframe exists ends by posting an
\* acknowledgement on the channel, also when the resize failed.
C17_ViewportAnswered ==
    [][last'.act = "viewportResume" =>
          (Has(last'.out, "post viewport:done") \/ Has(last'.out, "post viewport:fail"))]_vars

\* C18: removal from the registry is idempotent and the registry holds one handle per id:
\* a done or error event whose id has no handle leaves the registry unchanged and throws
\* nothing; a done or error event changes no entry but that of its id, which it leaves as it
\* was or empties; createIframe removes the iframe registered under the id, if any, and
\* leaves the iframe of the creating pass as the only entry of that id, other entries kept.
C18_RegistryIdempotent ==
    [][/\ (last'.act = "dispatch" /\ last'.ev.type \in {"done", "error"}) =>
            /\ iframes[last'.ev.id] = 0 => iframes' = iframes
            /\ ~Has(last'.out, "throw")
            /\ \A id \in Ids : id # last'.ev.id => iframes'[id] = iframes[id]
            /\ iframes'[last'.ev.id] \in {0, iframes[last'.ev.id]}
            /\ last'.ev.type = "error" => iframes'[last'.ev.id] = 0
       /\ Has(last'.out, "createIframe") =>
            /\ last'.act \in {"container", "loop"}
            /\ Has(last'.out, "remove") <=> (last'.act = "loop" /\ iframes[last'.arg] # 0)
            /\ \E p \in Passes :
                  /\ pass'[p].created = Append(pass[p].created, last'.arg)
                  /\ iframes' = [id \in Ids |-> IF id = last'.arg THEN p
                                                 ELSE IF last'.act = "loop" THEN iframes[id]
                                                 ELSE 0]]_vars

\* a pass created the iframe of "b" while another pass's iframe was registered under "b"
C18_Witness ==
    /\ last.act = "loop" /\ last.arg = "b" /\ Has(last.out, "remove")
    /\ \E p, q \in Passes : /\ p # q /\ iframes["b"] = q
                             /\ pass[p].created = <<"a", "b">> /\ pass[q].created = <<"a", "b">>

DoneDispatched(l) == l.act = "dispatch" /\ l.ev.type = "done"

C20_OneEventOneFile ==
    [][isolate =>
        /\ (last'.act = "dispatch" /\ last'.ev.type \notin {"done", "error"}) => pass' = pass
        /\ (last'.act = "dispatch" /\ last'.ev.type \in {"done", "error"}) =>
              \A p \in Passes :
                 /\ pass'[p].created = pass[p].created /\ pass'[p].i = pass[p].i
                 /\ pass'[p].pc = IF pass[p].pc = "wait" THEN "resolved" ELSE pass[p].pc
        /\ \A p \in Passes :
              (pass[p].created # <<>> /\ pass'[p].created # pass[p].created
                   /\ pass'[p].created # <<>>) =>
                 /\ pass[p].pc = "resolved" /\ last'.act = "loop"
                 /\ pass'[p].created = Append(pass[p].created, last'.arg)
                 /\ pass'[p].pc = "viewport"
        /\ \A p \in Passes : Len(pass'[p].created) <= 1 + nEvents']_vars

\* a pass went from "a" to "b" on one done or error event and a later viewport event left
\* it waiting for the event of "b"
C20_Witness ==
    /\ isolate /\ nEvents = 2 /\ last.act = "dispatch" /\ last.ev.type = "viewport"
    /\ \E p \in Passes : pass[p].created = <<"a", "b">> /\ pass[p].pc = "wait"
====
